---- MODULE Spec2Model ----
(***************************************************************************)
(* Model of sGDML_dataset_generation:                                      *)
(*   - the Q-Chem report parser QChemOutputFile.__init__                   *)
(*     (sgdml_dataset_generation/readers/qchem.py), as a line-by-line      *)
(*     state machine (specification ParserSpec);                           *)
(*   - the dispatch / aggregation pipeline of scripts/forces_trajectory.py *)
(*     with run_calculator_map and calculators.run_qchem                   *)
(*     (specification Spec);                                               *)
(*   - the job script calculators.run_qchem writes from the template and   *)
(*     the geometry (specification ScriptSpec).                            *)
(* Floating point numbers are fixed-point integers: energies in            *)
(* milli-hartree, excitation energies in milli-eV, lengths in 1/1000.      *)
(***************************************************************************)
EXTENDS Integers, Sequences, FiniteSets, TLC

\* ------------------------------------------------------------------------
\* Bounds of the model
\* ------------------------------------------------------------------------
\* number of lines a report may hold before its end
MaxLines == 7
\* number of geometries in the input file
MaxGeoms == 2
\* largest pool size (--parallel_images)
MaxProcs == 2

\* ------------------------------------------------------------------------
\* Python dictionaries: insertion-ordered sequences of (key, value) entries
\* ------------------------------------------------------------------------
EmptyDict == << >>

Keys(d) == { d[i].k : i \in 1..Len(d) }

Has(d, key) == \E i \in 1..Len(d) : d[i].k = key

Get(d, key) == d[CHOOSE i \in 1..Len(d) : d[i].k = key].v

\* d[key] = val : an existing key keeps its position, a new key is appended
DictSet(d, key, val) ==
    IF Has(d, key)
    THEN [ i \in 1..Len(d) |-> IF d[i].k = key THEN [k |-> key, v |-> val] ELSE d[i] ]
    ELSE Append(d, [k |-> key, v |-> val])

\* ------------------------------------------------------------------------
\* Report lines.  A line is its kind (which marker substring it contains)
\* and its whitespace-separated tokens, line.split().  A token is a word
\* ("w"), an integer literal ("i"), a float literal ("f") or an integer
\* followed by a colon ("k", as in "Excited state 1:").
\* ------------------------------------------------------------------------
W(s) == [c |-> "w", s |-> s, n |-> 0]
N(n) == [c |-> "i", s |-> "", n |-> n]
F(n) == [c |-> "f", s |-> "", n |-> n]
K(n) == [c |-> "k", s |-> "", n |-> n]

Line(kind, parts) == [k |-> kind, parts |-> parts]

\* f.readline() at the end of the file returns '' : no marker, no token
EOF == Line("eof", << >>)

\* float(t) succeeds on integer and float literals
IsFloat(t) == t.c \in {"i", "f"}
\* int(t) succeeds on integer literals only
IsInt(t) == t.c = "i"
\* int(t.replace(":", ""))
IsIntColon(t) == t.c \in {"i", "k"}

\* parts[i] with Python's 0-based index; HasPart is the IndexError test
HasPart(line, i) == i + 1 <= Len(line.parts)
Part(line, i) == line.parts[i + 1]

\* parts[a:b], Python slice: never raises, clipped to the list
Slice(line, a, b) ==
    LET hi == IF b < Len(line.parts) THEN b ELSE Len(line.parts)
    IN  IF a >= hi THEN << >> ELSE [ i \in 1..(hi - a) |-> line.parts[a + i] ]

AllFloat(ts) == \A i \in 1..Len(ts) : IsFloat(ts[i])
AllInt(ts) == \A i \in 1..Len(ts) : IsInt(ts[i])
Values(ts) == [ i \in 1..Len(ts) |-> ts[i].n ]

\* the lines a report of the model is made of
Blank == Line("blank", << >>)
Text == Line("text", << W("Nuclear"), W("Repulsion"), W("Energy") >>)
Sep == Line("sep", << W("-----") >>)
GeomTitle == Line("geomtitle", << W("Standard"), W("Nuclear"), W("Orientation"), W("(Angstroms)") >>)
AtomLine(i, sym, z) == Line("atom", << N(i), W(sym), F(0), F(0), F(z) >>)
\* the value is the ninth token, parts[8]
TotalEnergyLine(e) ==
    Line("toten", << W("SCF"), W("Total"), W("energy"), W("in"), W("final"),
                     W("basis"), W("set"), W("="), F(e) >>)
TddftTitle == Line("tddft", << W("TDDFT"), W("Excitation"), W("Energies") >>)
ExcLine(s, ev) ==
    Line("exc", << W("Excited"), W("state"), K(s), W("excitation"), W("energy"),
                   W("(eV)"), W("="), F(ev) >>)
OscLine == Line("osc", << W("Strength"), W(":"), F(500) >>)
BetweenLine(i, j) == Line("between", << W("between"), W("states"), N(i), W("and"), N(j) >>)
DcEtfLine == Line("dcetf", << W("DC"), W("between"), W("with"), W("ETF") >>)
NacRow(i, x) == Line("nacrow", << N(i), F(x), F(0), F(0) >>)
GradScfTitle == Line("gradscf", << W("Gradient"), W("of"), W("SCF"), W("Energy") >>)
MaxGradLine == Line("maxgrad", << W("Max"), W("gradient"), W("component"), W("="), F(1) >>)
StateEnergyLine(s) ==
    Line("stateen", << W("RPA"), N(s), W("State"), W("Energy"), W("is"), F(-7400) >>)
GradExTitle == Line("gradex", << W("Gradient"), W("of"), W("the"), W("state"), W("energy") >>)
GradTimeLine == Line("gradtime", << W("Gradient"), W("time:") >>)
Thanks == Line("thanks", << W("Thank"), W("you"), W("very"), W("much"), W("for"), W("using"), W("Q-Chem.") >>)
\* chunk header: the atom indices of the chunk's columns
GradHeader(cols) == Line("ghdr", [ i \in 1..Len(cols) |-> N(cols[i]) ])
\* component row c of a chunk: the derivative of atom a in direction c is
\* written 10*a + c
GradRow(c, cols) ==
    Line("grow", << N(c) >> \o [ i \in 1..Len(cols) |-> F(10 * cols[i] + c) ])

\* ------------------------------------------------------------------------
\* Unit conversion (sgdml_dataset_generation.units), in fixed point:
\* lengths are held in 1/1000 Angstrom resp. the same scale of bohr,
\* excitation energies in milli-eV, energies in milli-hartree.
\* ------------------------------------------------------------------------
\* 1 bohr = 0.529 Angstrom, in 1/1000
bohr_to_angs == 529
\* 1 hartree = 27 eV (rounded)
hartree_to_ev == 27

\* x / units.bohr_to_angs
AngsToBohr(x) == (x * 1000) \div bohr_to_angs
\* a conversion that multiplies where it has to divide
EvToHartreeTimes(en_ex) == en_ex * hartree_to_ev
\* en_ex / units.hartree_to_ev
EvToHartree(en_ex) == en_ex \div hartree_to_ev

\* ------------------------------------------------------------------------
\* The parser object: self.data and the local variables of __init__
\* ------------------------------------------------------------------------
\* self.data[key] = val
DataSet(data, key, val) ==
    [ x \in (DOMAIN data) \cup {key} |-> IF x = key THEN val ELSE data[x] ]

\* a _getset that stores the default over an existing item
GetSetOverwrites(data, key, default) == DataSet(data, key, default)

\* self._getset(key, default): an existing item is kept, the data after it
GetSet(data, key, default) ==
    IF key \in DOMAIN data THEN data ELSE DataSet(data, key, default)

\* self.data after lines 40-43
InitData ==
    DataSet(DataSet([ x \in {"ok"} |-> FALSE ], "gradients (au)", EmptyDict),
            "derivative couplings (au)", EmptyDict)

\* the local variable `state` before its first assignment
NoState == -1

\* the parser before the first line is read.  Handler locals other than
\* `state` are re-initialised by their handler before every use; the model
\* clears them when the handler ends.
InitParser ==
    [ mode |-> "scan", data |-> InitData, state |-> NoState, skip |-> 0,
      symbols |-> << >>, geometry |-> << >>, pair |-> << >>, nacv |-> << >>,
      grad |-> << >>, grad_xyz |-> << >> ]

\* an exception leaves __init__: no object is constructed
Raise(p) == [ InitParser EXCEPT !.mode = "raised", !.data = p.data, !.state = p.state ]
\* a loop that can no longer end (every further readline() returns '')
Hang(p) == [ InitParser EXCEPT !.mode = "hang", !.data = p.data, !.state = p.state ]
\* back to `for line in f`
ToScan(p, data) == [ InitParser EXCEPT !.data = data, !.state = p.state ]

\* rows of a list of lists that np.array(...) turns into a 2-d array
Rectangular(rows) == \A i, j \in 1..Len(rows) : Len(rows[i]) = Len(rows[j])

\* a marker test that is too loose and matches ordinary text lines as well
SuccessMarkerLoose(line) == line.k \in {"thanks", "text"}
\* line 155: "Thank you very much for using Q-Chem." in line
SuccessMarker(line) == line.k = "thanks"

\* lines 48-53 and 66-68, 70-74, 90-93, 112-113, 132-136, 155-156:
\* one iteration of `for line in f`, up to the first readline() of a handler
ScanStep(p, line) ==
    CASE line = EOF -> [ p EXCEPT !.mode = "done" ]
      [] line.k = "geomtitle" -> [ p EXCEPT !.mode = "geom_skip", !.skip = 3 ]
      [] line.k = "toten" ->
            IF ~HasPart(line, 8) \/ ~IsFloat(Part(line, 8)) THEN Raise(p)
            ELSE [ p EXCEPT !.data = GetSet(p.data, "scf energy", Part(line, 8).n) ]
      [] line.k = "tddft" ->
            [ p EXCEPT !.mode = "tddft_skip", !.skip = 2,
                       !.data = GetSet(GetSet(p.data, "excitation energies (eV)", EmptyDict),
                                       "oscillator strengths", EmptyDict) ]
      [] line.k = "between" ->
            IF ~HasPart(line, 4) \/ ~IsInt(Part(line, 2)) \/ ~IsInt(Part(line, 4))
            THEN Raise(p)
            ELSE [ p EXCEPT !.mode = "dc_find",
                            !.pair = << Part(line, 2).n, Part(line, 4).n >> ]
      [] line.k = "gradscf" -> [ p EXCEPT !.mode = "gscf_hdr" ]
      [] line.k = "stateen" ->
            IF ~HasPart(line, 1) \/ ~IsInt(Part(line, 1)) THEN Raise(p)
            ELSE [ p EXCEPT !.state = Part(line, 1).n ]
      [] line.k = "gradex" -> [ p EXCEPT !.mode = "gex_hdr" ]
      [] SuccessMarker(line) -> [ p EXCEPT !.data = DataSet(p.data, "ok", TRUE) ]
      [] OTHER -> p

\* the f.readline() calls that skip header lines (49-51, 73-74, 98-99)
SkipStep(p, line, next) ==
    IF p.skip > 1 THEN [ p EXCEPT !.skip = p.skip - 1 ]
    ELSE [ p EXCEPT !.skip = 0, !.mode = next ]

\* lines 54-64: one pass of the geometry loop
GeomRowStep(p, line) ==
    IF line.k = "sep"
    THEN \* np.array(geometry) / bohr_to_angs raises on ragged rows
         IF ~Rectangular(p.geometry) THEN Raise(p)
         ELSE ToScan(p, GetSet(GetSet(p.data, "symbols", p.symbols), "geometry (au)",
                    [ i \in 1..Len(p.geometry) |->
                        [ c \in 1..Len(p.geometry[i]) |-> AngsToBohr(p.geometry[i][c]) ] ]))
    ELSE IF ~HasPart(line, 1) \/ ~AllFloat(Slice(line, 2, 5)) THEN Raise(p)
    ELSE [ p EXCEPT !.symbols = Append(p.symbols, Part(line, 1).s),
                    !.geometry = Append(p.geometry, Values(Slice(line, 2, 5))) ]

\* lines 88-89: for state, en_ex in exc.items(): energies[state] = energies[0] + ...
RECURSIVE EnergiesLoop(_, _, _)
EnergiesLoop(energies, exc, i) ==
    IF i > Len(exc) THEN energies
    ELSE EnergiesLoop(DictSet(energies, exc[i].k, Get(energies, 0) + EvToHartree(exc[i].v)),
                      exc, i + 1)

\* lines 85-89: total energies of all states, after the block's separator
TotalEnergies(data) ==
    LET d1 == GetSet(data, "energies (au)", EmptyDict)
        e0 == DictSet(d1["energies (au)"], 0, d1["scf energy"])
    IN  DataSet(d1, "energies (au)", EnergiesLoop(e0, d1["excitation energies (eV)"], 1))

\* lines 75-89: one pass of the excitation-energies loop
TddftRowStep(p, line) ==
    CASE line.k = "sep" ->
            \* self['scf energy'] raises KeyError when no total energy was read
            IF "scf energy" \notin DOMAIN p.data
            THEN Raise([ p EXCEPT !.data = GetSet(p.data, "energies (au)", EmptyDict) ])
            ELSE ToScan(p, TotalEnergies(p.data))
      [] line.k = "exc" ->
            IF ~HasPart(line, 7) \/ ~IsIntColon(Part(line, 2)) \/ ~IsFloat(Part(line, 7))
            THEN Raise(p)
            ELSE [ p EXCEPT !.state = Part(line, 2).n,
                            !.data = DataSet(p.data, "excitation energies (eV)",
                                        DictSet(p.data["excitation energies (eV)"],
                                                Part(line, 2).n, Part(line, 7).n)) ]
      [] line.k = "osc" ->
            IF ~HasPart(line, 2) \/ ~IsFloat(Part(line, 2)) \/ p.state = NoState
            THEN Raise(p)
            ELSE [ p EXCEPT !.data = DataSet(p.data, "oscillator strengths",
                                        DictSet(p.data["oscillator strengths"],
                                                p.state, Part(line, 2).n)) ]
      \* at the end of the file no line ends the loop any more
      [] line = EOF -> Hang(p)
      [] OTHER -> p

\* lines 94-97: search for the "DC between ... with ETF" line
DcFindStep(p, line) ==
    CASE line.k = "dcetf" -> [ p EXCEPT !.mode = "dc_skip", !.skip = 2 ]
      [] line = EOF -> Hang(p)
      [] OTHER -> p

\* lines 100-110: one pass of the coupling-vector loop; np.array(nacv) of
\* ragged rows raises when the installed numpy is strict about it
DcRowStep(p, line, strict) ==
    CASE line.k = "sep" ->
            IF strict /\ ~Rectangular(p.nacv) THEN Raise(p)
            ELSE ToScan(p, DataSet(p.data, "derivative couplings (au)",
                            DictSet(p.data["derivative couplings (au)"], p.pair, p.nacv)))
      \* '' appends an empty row for ever
      [] line = EOF -> Hang(p)
      [] OTHER ->
            IF ~AllFloat(Slice(line, 1, 4)) THEN Raise(p)
            ELSE [ p EXCEPT !.nacv = Append(p.nacv, Values(Slice(line, 1, 4))) ]

\* a chunk that is appended as it was read, one row per component
Untransposed(grad_xyz) == grad_xyz

\* lines 126 / 149: list(np.array(grad_xyz).transpose()), component-major
\* rows to one row per atom; ragged rows stay the three rows they were when
\* numpy does not raise
Transpose(grad_xyz) ==
    IF Rectangular(grad_xyz)
    THEN [ a \in 1..Len(grad_xyz[1]) |-> [ c \in 1..3 |-> grad_xyz[c][a] ] ]
    ELSE grad_xyz

\* lines 114-119 / 137-142: the header row of a chunk, or the end of the block
GradHeaderStep(p, line, endKind, xyzMode, key, strict) ==
    CASE line.k = endKind ->
            IF (strict /\ ~Rectangular(p.grad)) \/ key = NoState THEN Raise(p)
            ELSE ToScan(p, DataSet(p.data, "gradients (au)",
                            DictSet(p.data["gradients (au)"], key, p.grad)))
      \* '' gives an empty chunk for ever
      [] line = EOF -> Hang(p)
      [] OTHER ->
            IF ~AllInt(line.parts) THEN Raise(p)
            ELSE [ p EXCEPT !.mode = xyzMode, !.grad_xyz = << >> ]

\* lines 121-127 / 144-150: one component row of a chunk; after the third
\* the chunk is transposed and appended
GradXyzStep(p, line, hdrMode, strict) ==
    IF ~AllFloat(Slice(line, 1, Len(line.parts))) THEN Raise(p)
    ELSE LET rows == Append(p.grad_xyz, Values(Slice(line, 1, Len(line.parts))))
         IN  IF Len(rows) < 3 THEN [ p EXCEPT !.grad_xyz = rows ]
             ELSE IF strict /\ ~Rectangular(rows) THEN Raise(p)
             ELSE [ p EXCEPT !.mode = hdrMode, !.grad_xyz = << >>,
                             !.grad = p.grad \o Transpose(rows) ]

\* what the parser does with the next line it reads, by its position in
\* __init__
Step(p, line, strict) ==
    CASE p.mode = "scan" -> ScanStep(p, line)
      [] p.mode = "geom_skip" -> SkipStep(p, line, "geom_rows")
      [] p.mode = "geom_rows" -> GeomRowStep(p, line)
      [] p.mode = "tddft_skip" -> SkipStep(p, line, "tddft_rows")
      [] p.mode = "tddft_rows" -> TddftRowStep(p, line)
      [] p.mode = "dc_find" -> DcFindStep(p, line)
      [] p.mode = "dc_skip" -> SkipStep(p, line, "dc_rows")
      [] p.mode = "dc_rows" -> DcRowStep(p, line, strict)
      [] p.mode = "gscf_hdr" -> GradHeaderStep(p, line, "maxgrad", "gscf_xyz", 0, strict)
      [] p.mode = "gscf_xyz" -> GradXyzStep(p, line, "gscf_hdr", strict)
      [] p.mode = "gex_hdr" -> GradHeaderStep(p, line, "gradtime", "gex_xyz", p.state, strict)
      [] p.mode = "gex_xyz" -> GradXyzStep(p, line, "gex_hdr", strict)
      [] OTHER -> p

Ended(p) == p.mode \in {"done", "raised", "hang"}

\* QChemOutputFile(f) on a whole report: the parser when __init__ has
\* returned ("done"), raised ("raised") or can no longer return ("hang")
RECURSIVE ParseLines(_, _, _, _)
ParseLines(p, lines, i, strict) ==
    IF Ended(p) THEN p
    ELSE ParseLines(Step(p, IF i <= Len(lines) THEN lines[i] ELSE EOF, strict),
                    lines, i + 1, strict)

QChemOutputFile(lines, strict) == ParseLines(InitParser, lines, 1, strict)

\* ------------------------------------------------------------------------
\* Whole reports, as Q-Chem writes them for a two-atom molecule
\* ------------------------------------------------------------------------
GeometryBlock ==
    << GeomTitle, Text, Text, Sep, AtomLine(1, "C", 0), AtomLine(2, "H", 1058), Sep >>
ExcitationBlock ==
    << TddftTitle, Sep, Blank, ExcLine(1, 2700), OscLine, ExcLine(2, 5400), OscLine, Sep >>
ScfGradientBlock ==
    << GradScfTitle, GradHeader(<< 1, 2 >>), GradRow(1, << 1, 2 >>), GradRow(2, << 1, 2 >>),
       GradRow(3, << 1, 2 >>), MaxGradLine >>
StateGradientBlock(s) ==
    << StateEnergyLine(s), GradExTitle, GradHeader(<< 1, 2 >>), GradRow(1, << 1, 2 >>),
       GradRow(2, << 1, 2 >>), GradRow(3, << 1, 2 >>), GradTimeLine >>
CouplingBlock(i, j) ==
    << BetweenLine(i, j), Text, DcEtfLine, Text, Sep, NacRow(1, 3), NacRow(2, 4), Sep >>

\* ground state only: geometry, total energy, SCF gradient
GroundReport ==
    GeometryBlock \o << TotalEnergyLine(-7500) >> \o ScfGradientBlock \o << Thanks >>
\* excited states: energies of two excited states and the SCF gradient
ExcitedReport ==
    GeometryBlock \o << TotalEnergyLine(-7500) >> \o ExcitationBlock
        \o ScfGradientBlock \o << Thanks >>
\* the same with the gradient of state 1 and the coupling between 1 and 2
CouplingReport ==
    GeometryBlock \o << TotalEnergyLine(-7400) >> \o ExcitationBlock
        \o ScfGradientBlock \o StateGradientBlock(1) \o CouplingBlock(1, 2) \o << Thanks >>
\* a calculation that died in the SCF: the report stops inside the geometry block
CrashedReport ==
    << GeomTitle, Text, Text, Sep, AtomLine(1, "C", 0) >>
\* a calculation that failed before the SCF gradient: no success marker
FailedReport ==
    GeometryBlock \o << TotalEnergyLine(-7500) >> \o ExcitationBlock

\* hand-written minimal reports: nothing but the SCF gradient block
MinimalGroundReport == ScfGradientBlock
\* the same with the gradients of the states 1 and 2 and the coupling
\* between 1 and 2
MinimalExcitedReport ==
    ScfGradientBlock \o StateGradientBlock(1) \o StateGradientBlock(2) \o CouplingBlock(1, 2)

\* a coupling calculation without gradients: energies of two excited states
\* and the coupling between them
CouplingOnlyReport ==
    GeometryBlock \o << TotalEnergyLine(-7400) >> \o ExcitationBlock
        \o CouplingBlock(1, 2) \o << Thanks >>

\* a calculation that stopped after the SCF gradient: no success marker
UnfinishedReport ==
    GeometryBlock \o << TotalEnergyLine(-7500) >> \o ExcitationBlock \o ScfGradientBlock

\* a calculation that was killed while it printed the SCF gradient: the
\* report stops after the first chunk, without the "Max gradient" line
TruncatedReport ==
    GeometryBlock \o << TotalEnergyLine(-7500), GradScfTitle, GradHeader(<< 1, 2 >>),
                        GradRow(1, << 1, 2 >>), GradRow(2, << 1, 2 >>), GradRow(3, << 1, 2 >>) >>

Reports ==
    { GroundReport, ExcitedReport, CouplingReport, CrashedReport, FailedReport,
      MinimalGroundReport, MinimalExcitedReport, CouplingOnlyReport, UnfinishedReport,
      TruncatedReport }

\* one chunk of a gradient block: the header row with the atom indices of
\* the columns, then one row per Cartesian component
ChunkLines(cols) ==
    << GradHeader(cols), GradRow(1, cols), GradRow(2, cols), GradRow(3, cols) >>

RECURSIVE GradientChunks(_)
GradientChunks(layout) ==
    IF layout = << >> THEN << >>
    ELSE ChunkLines(Head(layout)) \o GradientChunks(Tail(layout))

\* seven atoms, printed six columns to a chunk
SevenAtoms == << << 1, 2, 3, 4, 5, 6 >>, << 7 >> >>

\* the SCF gradient and the gradient of state 1 of a seven-atom molecule
ChunkedReport ==
    << GradScfTitle >> \o GradientChunks(SevenAtoms)
        \o << MaxGradLine, StateEnergyLine(1), GradExTitle >>
        \o GradientChunks(SevenAtoms) \o << GradTimeLine, Thanks >>

\* two calculations in one report (a batch job): a two-atom molecule, then
\* a single atom
BatchReport ==
    GeometryBlock \o << TotalEnergyLine(-7500) >> \o ScfGradientBlock
        \o << GeomTitle, Text, Text, Sep, AtomLine(1, "C", 0), Sep >>
        \o << TotalEnergyLine(-7400), GradScfTitle >> \o ChunkLines(<< 1 >>)
        \o << MaxGradLine, Thanks >>

\* the state of the gradient is announced before the excitation energies
\* are listed
AnnouncedFirstReport ==
    << TotalEnergyLine(-7400), StateEnergyLine(1) >> \o ExcitationBlock
        \o << GradExTitle >> \o ChunkLines(<< 1, 2 >>) \o << GradTimeLine, Thanks >>

\* every section twice in one report, as the steps of a job that runs two
\* calculations write them: a two-atom molecule, then a single atom at
\* another energy, each with the SCF gradient, the gradient of state 1 and
\* the coupling between 1 and 2
RepeatedReport ==
    GeometryBlock \o << TotalEnergyLine(-7500) >> \o ScfGradientBlock
        \o StateGradientBlock(1) \o CouplingBlock(1, 2)
        \o << GeomTitle, Text, Text, Sep, AtomLine(1, "C", 0), Sep >>
        \o << TotalEnergyLine(-7400), GradScfTitle >> \o ChunkLines(<< 1 >>)
        \o << MaxGradLine, StateEnergyLine(1), GradExTitle >> \o ChunkLines(<< 1 >>)
        \o << GradTimeLine, BetweenLine(1, 2), Text, DcEtfLine, Text, Sep, NacRow(1, 4), Sep,
              Thanks >>

\* the reports that are parsed line by line
ParserReports ==
    Reports \cup { ChunkedReport, BatchReport, AnnouncedFirstReport, RepeatedReport }

\* ------------------------------------------------------------------------
\* State
\* ------------------------------------------------------------------------
VARIABLES
    parser,         \* the QChemOutputFile under construction (see InitParser)
    lines_read,     \* number of lines of the report consumed so far
    at_eof,         \* the file handle has reached the end of the report
    ragged_raises,  \* the installed numpy raises on ragged nested lists
    free,           \* the report is any text over LineSet (else it is `script`)
    script,         \* the unread lines of a report of Reports
    hist,           \* what the report held so far (history, not program state)
    \* scripts/forces_trajectory.py
    n_geoms,        \* number of frames of geometries.xyz
    pool_size,      \* args.parallel_images
    jobs,           \* igeo -> the run_calculator_map call for that geometry
    dirs,           \* the scratch directories TMP/GEOM_<igeo> that exist
    pc,             \* the main program: "loop", "done" (FINISHED) or "aborted"
    consumed,       \* results taken from results_list so far (igeom)
    append,         \* the flag `append`
    state,          \* the module-level loop variable `state`
    files,          \* output file name -> the records (frames) it holds
    delivered,      \* igeo of the results in the order consumed (history)
    overtaken,      \* a job ended before a job submitted earlier (history)
    \* calculators.run_qchem, lines 41-68
    template,       \* the template script, by its parts (see TemplateFiles)
    atoms,          \* the atoms of the geometry handed to run_qchem
    job_script,     \* the lines of <directory>/<script>
    tpc             \* "idle", "copied" (line 42), "written" (line 68) or "raised"

pipeline_vars ==
    << n_geoms, pool_size, jobs, dirs, pc, consumed, append, state, files, delivered,
       overtaken >>

parser_vars == << parser, lines_read, at_eof, ragged_raises, free, script, hist >>

template_vars == << template, atoms, job_script, tpc >>

States == {1, 2}

\* the lines a report is drawn from
LineSet ==
    { Blank, Text, Sep, GeomTitle, TddftTitle, OscLine, DcEtfLine, GradScfTitle,
      MaxGradLine, GradExTitle, GradTimeLine, Thanks,
      AtomLine(1, "C", 0),
      TotalEnergyLine(-7500), TotalEnergyLine(-7400),
      ExcLine(1, 2700), ExcLine(2, 5400),
      BetweenLine(1, 2), NacRow(1, 3),
      GradHeader(<< 1, 2 >>) }
    \cup { StateEnergyLine(s) : s \in States }
    \cup { GradRow(c, cols) : c \in 1..3, cols \in { << 1, 2 >> } }

\* the atom indices of all header rows of a block, in file order
RECURSIVE HeaderAtoms(_)
HeaderAtoms(chunks) ==
    IF chunks = << >> THEN << >> ELSE Head(chunks).atoms \o HeaderAtoms(Tail(chunks))

\* the chunks read so far are consecutive chunks of at most 6 atom columns,
\* each a header row followed by the rows of the components 1, 2, ... in order
LaidOutSoFar(chunks) ==
    /\ HeaderAtoms(chunks) = [ i \in 1..Len(HeaderAtoms(chunks)) |-> i ]
    /\ \A n \in 1..Len(chunks) :
          /\ Len(chunks[n].atoms) \in 1..6
          /\ Len(chunks[n].rows) <= 3
          /\ n < Len(chunks) => Len(chunks[n].rows) = 3
          /\ \A c \in 1..Len(chunks[n].rows) :
                /\ chunks[n].rows[c].c = c
                /\ Len(chunks[n].rows[c].v) = Len(chunks[n].atoms)

\* a whole block over M atoms laid out in this way
WellLaidOut(chunks) ==
    /\ chunks # << >>
    /\ LaidOutSoFar(chunks)
    /\ Len(chunks[Len(chunks)].rows) = 3

\* what the history keeps of a block that is not laid out in this way
Malformed == << [ atoms |-> << >>, rows |-> << >> ] >>

InitHist ==
    [ marker |-> FALSE,        \* a success-marker line occurred in the report
      toten |-> << >>,         \* value of the latest (and of the first) total-energy line
      listed |-> EmptyDict,    \* state -> eV of the "Excited state" lines parsed
      blocks |-> 0,            \* excitation-energies blocks parsed to their end
      chunks |-> << >>,        \* header atoms and rows (number, values) of the block being read
      laid |-> EmptyDict,      \* state -> the chunks of the gradient block stored for it
      announced |-> NoState,   \* state of the latest "State Energy is" line
      target |-> << >>,        \* latest state gradient stored: << announced state, key >>
      again |-> {} ]           \* sections that ended again, with other content than was stored

\* `section` when it stores `val` under `key` of the record `name` and the
\* record holds another value for the key
StoredAgain(p, section, name, key, val) ==
    IF Has(p.data[name], key) /\ Get(p.data[name], key) # val THEN { section } ELSE {}

\* the history after `line` was read in parser state p, giving q
HistStep(h, p, line, q) ==
    [ marker |-> h.marker \/ line.k = "thanks",
      toten |-> IF p.mode = "scan" /\ line.k = "toten" /\ q.mode # "raised"
                THEN << Part(line, 8).n >> \o
                     (IF h.toten = << >> THEN << >> ELSE << h.toten[Len(h.toten)] >>)
                ELSE h.toten,
      listed |-> IF p.mode = "tddft_rows" /\ line.k = "exc" /\ q.mode # "raised"
                 THEN DictSet(h.listed, Part(line, 2).n, Part(line, 7).n) ELSE h.listed,
      blocks |-> IF p.mode = "tddft_rows" /\ q.mode = "scan"
                 THEN h.blocks + 1 ELSE h.blocks,
      chunks |-> LET read ==
                     CASE p.mode \in {"gscf_hdr", "gex_hdr"} /\ q.mode \in {"gscf_xyz", "gex_xyz"} ->
                            Append(h.chunks, [ atoms |-> Values(line.parts), rows |-> << >> ])
                       [] p.mode \in {"gscf_xyz", "gex_xyz"} /\ q.mode # "raised" ->
                            [ h.chunks EXCEPT ![Len(h.chunks)].rows =
                                Append(@, [ c |-> IF HasPart(line, 0) /\ IsInt(Part(line, 0))
                                                  THEN Part(line, 0).n ELSE NoState,
                                            v |-> Values(Slice(line, 1, Len(line.parts))) ]) ]
                       [] p.mode \in {"gscf_hdr", "gex_hdr"} /\ q.mode = "scan" -> << >>
                       [] OTHER -> h.chunks
                 IN  IF LaidOutSoFar(read) THEN read ELSE Malformed,
      laid |-> IF p.mode \in {"gscf_hdr", "gex_hdr"} /\ q.mode = "scan"
               THEN DictSet(h.laid, IF p.mode = "gscf_hdr" THEN 0 ELSE p.state,
                            IF WellLaidOut(h.chunks) THEN h.chunks ELSE Malformed)
               ELSE h.laid,
      announced |-> IF p.mode = "scan" /\ line.k = "stateen" /\ q.mode # "raised"
                    THEN Part(line, 1).n ELSE h.announced,
      target |-> IF p.mode = "gex_hdr" /\ q.mode = "scan"
                 THEN << h.announced, p.state >> ELSE h.target,
      again |-> IF q.mode # "scan" THEN h.again
                ELSE CASE p.mode = "geom_rows" ->
                            IF "symbols" \in DOMAIN p.data /\ p.data["symbols"] # p.symbols
                            THEN h.again \cup {"geometry"} ELSE h.again
                       [] p.mode = "gscf_hdr" ->
                            h.again \cup StoredAgain(p, "scf gradient", "gradients (au)", 0, p.grad)
                       [] p.mode = "gex_hdr" ->
                            h.again \cup StoredAgain(p, "state gradient", "gradients (au)", p.state, p.grad)
                       [] p.mode = "dc_rows" ->
                            h.again \cup StoredAgain(p, "coupling", "derivative couplings (au)", p.pair,
                                                    p.nacv)
                       [] OTHER -> h.again ]

\* no job script is written
NoTemplate == [ pre |-> << >>, section |-> << >>, post |-> << >> ]
TemplateIdle ==
    /\ template = NoTemplate
    /\ atoms = << >>
    /\ job_script = << >>
    /\ tpc = "idle"

\* no pipeline runs while a single report is parsed
PipelineIdle ==
    /\ n_geoms = 0
    /\ pool_size = 1
    /\ jobs = << >>
    /\ dirs = {}
    /\ pc = "idle"
    /\ consumed = 0
    /\ append = FALSE
    /\ state = NoState
    /\ files = << >>
    /\ delivered = << >>
    /\ overtaken = FALSE

ParserInit ==
    /\ parser = InitParser
    /\ lines_read = 0
    /\ at_eof = FALSE
    /\ ragged_raises \in BOOLEAN
    /\ \/ free = TRUE /\ script = << >>
       \/ free = FALSE /\ script \in ParserReports
    /\ hist = InitHist
    /\ PipelineIdle
    /\ TemplateIdle

\* the next line the file handle delivers: any line while the report goes
\* on, '' from its end on
CanRead(line) ==
    IF free
    THEN \/ line = EOF
         \/ ~at_eof /\ lines_read < MaxLines /\ line \in LineSet
    ELSE line = IF script = << >> THEN EOF ELSE Head(script)

\* `line` was read in the current mode and the parser becomes q
Advance(line, q) ==
    /\ parser' = q
    /\ lines_read' = IF line = EOF THEN lines_read ELSE lines_read + 1
    /\ at_eof' = (at_eof \/ line = EOF)
    /\ hist' = HistStep(hist, parser, line, q)
    /\ script' = IF script = << >> THEN script ELSE Tail(script)
    /\ UNCHANGED << ragged_raises, free >>
    /\ UNCHANGED pipeline_vars
    /\ UNCHANGED template_vars

\* every line a readline() of the model can deliver
Inputs ==
    LineSet \cup UNION { { r[i] : i \in 1..Len(r) } : r \in ParserReports } \cup {EOF}

Scan ==
    /\ parser.mode = "scan"
    /\ \E line \in Inputs : CanRead(line) /\ Advance(line, ScanStep(parser, line))

GeomSkip ==
    /\ parser.mode = "geom_skip"
    /\ \E line \in Inputs : CanRead(line) /\ Advance(line, SkipStep(parser, line, "geom_rows"))

GeomRow ==
    /\ parser.mode = "geom_rows"
    /\ \E line \in Inputs : CanRead(line) /\ Advance(line, GeomRowStep(parser, line))

TddftSkip ==
    /\ parser.mode = "tddft_skip"
    /\ \E line \in Inputs : CanRead(line) /\ Advance(line, SkipStep(parser, line, "tddft_rows"))

TddftRow ==
    /\ parser.mode = "tddft_rows"
    /\ \E line \in Inputs : CanRead(line) /\ Advance(line, TddftRowStep(parser, line))

DcFind ==
    /\ parser.mode = "dc_find"
    /\ \E line \in Inputs : CanRead(line) /\ Advance(line, DcFindStep(parser, line))

DcSkip ==
    /\ parser.mode = "dc_skip"
    /\ \E line \in Inputs : CanRead(line) /\ Advance(line, SkipStep(parser, line, "dc_rows"))

DcRow ==
    /\ parser.mode = "dc_rows"
    /\ \E line \in Inputs : CanRead(line)
          /\ Advance(line, DcRowStep(parser, line, ragged_raises))

GradScfHeader ==
    /\ parser.mode = "gscf_hdr"
    /\ \E line \in Inputs : CanRead(line)
          /\ Advance(line, GradHeaderStep(parser, line, "maxgrad", "gscf_xyz", 0, ragged_raises))

GradScfXyz ==
    /\ parser.mode = "gscf_xyz"
    /\ \E line \in Inputs : CanRead(line)
          /\ Advance(line, GradXyzStep(parser, line, "gscf_hdr", ragged_raises))

GradExHeader ==
    /\ parser.mode = "gex_hdr"
    /\ \E line \in Inputs : CanRead(line)
          /\ Advance(line, GradHeaderStep(parser, line, "gradtime", "gex_xyz",
                                          parser.state, ragged_raises))

GradExXyz ==
    /\ parser.mode = "gex_xyz"
    /\ \E line \in Inputs : CanRead(line)
          /\ Advance(line, GradXyzStep(parser, line, "gex_hdr", ragged_raises))

ParserNext ==
    \/ Scan \/ GeomSkip \/ GeomRow \/ TddftSkip \/ TddftRow
    \/ DcFind \/ DcSkip \/ DcRow
    \/ GradScfHeader \/ GradScfXyz \/ GradExHeader \/ GradExXyz

vars == << parser_vars, pipeline_vars, template_vars >>

ParserSpec == ParserInit /\ [][ParserNext]_vars

\* ------------------------------------------------------------------------
\* The pipeline of scripts/forces_trajectory.py
\* ------------------------------------------------------------------------
\* the file names written by the aggregation loop
ForcesFile(s) == << "forces", s >>
NacvecFile(s1, s2) == << "nacvec", s1, s2 >>

\* a frame left in an output file by an earlier run
StaleRecord == [ geom |-> 0, energy |-> 0 ]
StaleFiles ==
    [ name \in { ForcesFile(0), ForcesFile(1), NacvecFile(1, 2) } |-> << StaleRecord >> ]

\* ase.io.extxyz.write_extxyz(name, [mol], append=append): mode 'a' or 'w'
WriteExtxyz(fs, name, rec, app) ==
    DataSet(fs, name, IF app /\ name \in DOMAIN fs THEN Append(fs[name], rec) ELSE << rec >>)

\* mol.set_positions / mol.set_momenta accept an (atoms x 3) array only
FitsAtoms(arr, natoms) == Len(arr) = natoms /\ \A i \in 1..Len(arr) : Len(arr[i]) = 3

\* results["energies (au)"][s] raises KeyError
NoEnergyOf(res, s) == "energies (au)" \notin DOMAIN res \/ ~Has(res["energies (au)"], s)

\* lines 121-129: for state, gradient in results["gradients (au)"].items()
RECURSIVE GradientLoop(_, _, _, _, _)
GradientLoop(res, igeo, app, i, acc) ==
    LET grads == res["gradients (au)"] IN
    IF acc.status # "ok" \/ i > Len(grads) THEN acc
    ELSE LET s == grads[i].k
             seen == [ acc EXCEPT !.state = s ]
         IN  IF NoEnergyOf(res, s) \/ ~FitsAtoms(grads[i].v, Len(res["symbols"]))
             THEN [ seen EXCEPT !.status = "raised" ]
             ELSE GradientLoop(res, igeo, app, i + 1,
                    [ seen EXCEPT !.files = WriteExtxyz(acc.files, ForcesFile(s),
                        [ geom |-> igeo, energy |-> Get(res["energies (au)"], s) ], app) ])

\* lines 132-140: for (state1, state2), nac_vector in couplings.items();
\* the energy is looked up with `state`, the loop variable of the loop above
RECURSIVE CouplingLoop(_, _, _, _, _)
CouplingLoop(res, igeo, app, i, acc) ==
    LET nacs == res["derivative couplings (au)"] IN
    IF acc.status # "ok" \/ i > Len(nacs) THEN acc
    ELSE IF acc.state = NoState \/ NoEnergyOf(res, acc.state)
            \/ ~FitsAtoms(nacs[i].v, Len(res["symbols"]))
         THEN [ acc EXCEPT !.status = "raised" ]
         ELSE CouplingLoop(res, igeo, app, i + 1,
                [ acc EXCEPT !.files = WriteExtxyz(acc.files,
                    NacvecFile(nacs[i].k[1], nacs[i].k[2]),
                    [ geom |-> igeo, energy |-> Get(res["energies (au)"], acc.state) ], app) ])

\* an aggregation loop that skips the results of calculations without the
\* success marker
AggregateIfOk(res, igeo, app, fs, st) ==
    LET acc == [ files |-> fs, state |-> st, status |-> "ok" ] IN
    IF ~res["ok"] THEN acc
    ELSE IF "symbols" \notin DOMAIN res
            \/ ~FitsAtoms(res["geometry (au)"], Len(res["symbols"]))
    THEN [ acc EXCEPT !.status = "raised" ]
    ELSE CouplingLoop(res, igeo, app, 1, GradientLoop(res, igeo, app, 1, acc))

\* lines 116-140: the body of the aggregation loop for one result
Aggregate(res, igeo, app, fs, st) ==
    LET acc == [ files |-> fs, state |-> st, status |-> "ok" ] IN
    IF "symbols" \notin DOMAIN res \/ ~FitsAtoms(res["geometry (au)"], Len(res["symbols"]))
    THEN [ acc EXCEPT !.status = "raised" ]
    ELSE CouplingLoop(res, igeo, app, 1, GradientLoop(res, igeo, app, 1, acc))

\* exit statuses of os.system("... run_qchem.sh ...")
ExitStatuses == {0, 256}
\* what the engine leaves as <script>.out: a report, or no file at all
NoReport == << >>
EngineOutputs == Reports \cup {NoReport}
NoResult == << >>

\* the decimal digits of a positive integer
RECURSIVE Digits(_)
Digits(n) == IF n < 10 THEN << n >> ELSE Digits(n \div 10) \o << n % 10 >>

\* "%5.5d": at least five digits, padded with zeros on the left
RECURSIVE ZeroPad(_)
ZeroPad(ds) == IF Len(ds) >= 5 THEN ds ELSE ZeroPad(<< 0 >> \o ds)

\* one directory for all jobs
DirectoryShared(igeo) == [ prefix |-> "TMP/GEOM_", digits |-> ZeroPad(<< 0 >>) ]
\* line 21: directory = "TMP/GEOM_%5.5d" % igeo
Directory(igeo) == [ prefix |-> "TMP/GEOM_", digits |-> ZeroPad(Digits(igeo)) ]

\* the job has not been handed to a worker yet
NoDirectory == [ prefix |-> "", digits |-> << >> ]

\* no report is parsed while the pipeline runs (the jobs parse theirs in
\* one step, with QChemOutputFile)
ParserIdle ==
    /\ parser = InitParser
    /\ lines_read = 0
    /\ at_eof = FALSE
    /\ ragged_raises \in BOOLEAN
    /\ free = FALSE
    /\ script = << >>
    /\ hist = InitHist

Init ==
    /\ ParserIdle
    /\ TemplateIdle
    /\ n_geoms \in 1..MaxGeoms
    /\ pool_size \in 1..MaxProcs
    /\ jobs = [ i \in 1..n_geoms |->
                    [ st |-> "queued", ret |-> 0, res |-> NoResult, dir |-> NoDirectory ] ]
    /\ dirs = {}
    /\ pc = "loop"
    /\ consumed = 0
    /\ append = FALSE
    /\ state = NoState
    /\ files \in { << >>, StaleFiles }
    /\ delivered = << >>
    /\ overtaken = FALSE

\* the workers that are inside run_calculator_map
Busy == { i \in 1..n_geoms : jobs[i].st \in {"running", "hung"} }
\* the tasks the pool has handed to a worker
Started == { i \in 1..n_geoms : jobs[i].st # "queued" }

\* lines 18-23 and calculators.py 41-74: a free worker takes the next task of
\* pool.imap, creates its scratch directory and calls the engine
StartJob ==
    /\ pc = "loop"
    /\ Cardinality(Busy) < pool_size
    /\ Cardinality(Started) < n_geoms
    /\ LET igeo == Cardinality(Started) + 1 IN
          /\ jobs' = [ jobs EXCEPT ![igeo].st = "running", ![igeo].dir = Directory(igeo) ]
          /\ dirs' = dirs \cup { Directory(igeo) }
    /\ UNCHANGED << n_geoms, pool_size, pc, consumed, append, state, files, delivered,
                    overtaken >>
    /\ UNCHANGED parser_vars
    /\ UNCHANGED template_vars

\* the parse of every report the engine can leave, by numpy's strictness
ParsedReports == [ r \in Reports, strict \in BOOLEAN |-> QChemOutputFile(r, strict) ]

\* calculators.py 74-87 and lines 24-26: the engine call of job igeo has
\* returned `ret` and left `out`; the report is opened and parsed, and the
\* scratch directory is removed when run_calculator has returned
JobEnd(job, ret, out, strict) ==
    IF out = NoReport
    THEN \* open(output) raises FileNotFoundError
         [ job EXCEPT !.st = "raised", !.ret = ret ]
    ELSE LET q == ParsedReports[out, strict] IN
         CASE q.mode = "raised" -> [ job EXCEPT !.st = "raised", !.ret = ret ]
           [] q.mode = "hang" -> [ job EXCEPT !.st = "hung", !.ret = ret ]
           [] OTHER -> [ st |-> "returned", ret |-> ret, res |-> q.data, dir |-> job.dir ]

\* line 25: shutil.rmtree(directory), reached only when line 24 returned
DirsAfter(ds, igeo, job) == IF job.st = "returned" THEN ds \ { job.dir } ELSE ds

FinishJob ==
    /\ pc = "loop"
    /\ \E igeo \in 1..n_geoms, ret \in ExitStatuses, out \in EngineOutputs :
          /\ jobs[igeo].st = "running"
          /\ LET job == JobEnd(jobs[igeo], ret, out, ragged_raises) IN
                /\ jobs' = [ jobs EXCEPT ![igeo] = job ]
                /\ dirs' = DirsAfter(dirs, igeo, job)
                /\ overtaken' = (overtaken \/ (job.st # "hung" /\ \E j \in 1..(igeo - 1) :
                                                     jobs[j].st \in {"running", "hung"}))
    /\ UNCHANGED << n_geoms, pool_size, pc, consumed, append, state, files, delivered >>
    /\ UNCHANGED parser_vars
    /\ UNCHANGED template_vars

\* pool.imap_unordered: next() hands out any result that is ready
NextResultUnordered(k) ==
    LET ready == { i \in 1..n_geoms : jobs[i].st \in {"returned", "raised"}
                                      /\ \A j \in 1..Len(delivered) : delivered[j] # i }
    IN  IF ready = {} THEN k + 1 ELSE CHOOSE i \in ready : \A j \in ready : j <= i
\* pool.imap: the result next() hands out after k results is that of task k+1
NextResult(k) == k + 1

\* lines 115-143: one pass of `for igeom, results in enumerate(results_list)`.
\* An exception of the job is re-raised by next(); an exception ends the
\* program.
Consume ==
    /\ pc = "loop"
    /\ consumed < n_geoms
    /\ LET igeo == NextResult(consumed) IN
          /\ jobs[igeo].st \in {"returned", "raised"}
          /\ delivered' = Append(delivered, igeo)
          /\ IF jobs[igeo].st = "raised"
             THEN /\ pc' = "aborted"
                  /\ UNCHANGED << consumed, append, state, files >>
             ELSE LET acc == Aggregate(jobs[igeo].res, igeo, append, files, state) IN
                  /\ files' = acc.files
                  /\ state' = acc.state
                  /\ IF acc.status = "ok"
                     THEN pc' = pc /\ append' = TRUE /\ consumed' = consumed + 1
                     ELSE pc' = "aborted" /\ UNCHANGED << consumed, append >>
    /\ UNCHANGED << n_geoms, pool_size, jobs, dirs, overtaken >>
    /\ UNCHANGED parser_vars
    /\ UNCHANGED template_vars

\* line 145: results_list is exhausted, print("FINISHED")
Finish ==
    /\ pc = "loop"
    /\ consumed = n_geoms
    /\ pc' = "done"
    /\ UNCHANGED << n_geoms, pool_size, jobs, dirs, consumed, append, state, files, delivered,
                    overtaken >>
    /\ UNCHANGED parser_vars
    /\ UNCHANGED template_vars

Next == StartJob \/ FinishJob \/ Consume \/ Finish

Spec == Init /\ [][Next]_vars

\* ------------------------------------------------------------------------
\* The job script written by calculators.run_qchem (specification ScriptSpec)
\* ------------------------------------------------------------------------
\* A line of a script: its text, and whether the text contains the
\* substrings "$molecule" and "$end" the code tests for.  A geometry line
\* carries the symbol as text and the position as n.
ScriptLine(text, mol, end) == [ text |-> text, n |-> 0, mol |-> mol, end |-> end ]

MoleculeMarker == ScriptLine("$molecule", TRUE, FALSE)
EndMarker == ScriptLine("$end", FALSE, TRUE)
ChargeLine == ScriptLine("0 1", FALSE, FALSE)
OldAtomLine == ScriptLine("H 0.0 0.0 0.0", FALSE, FALSE)
RemLine == ScriptLine("method b3lyp", FALSE, FALSE)
\* a line of a $comment section that mentions the molecule section
CommentLine == ScriptLine("geometry in $molecule is replaced", TRUE, FALSE)

\* line 47: "%2s    %+12.10f   %+12.10f   %+12.10f \n" % (symbol, x, y, z)
GeomLine(atom) == [ text |-> atom.symbol, n |-> atom.x, mol |-> FALSE, end |-> FALSE ]
\* lines 44-48
GeomLines(mol) == [ i \in 1..Len(mol) |-> GeomLine(mol[i]) ]

\* largest number of atoms of a molecule
MaxAtoms == 2
\* largest number of lines before and after the molecule section
MaxExtra == 2

SeqsUpTo(S, n) == UNION { [ 1..k -> S ] : k \in 0..n }

\* the geometries: k atoms at distinct positions
Molecules ==
    { [ i \in 1..k |-> [ symbol |-> IF i = 1 THEN "C" ELSE "H", x |-> i ] ] : k \in 0..MaxAtoms }

\* a molecule section: opening marker, charge/multiplicity line, the
\* geometry lines, closing marker
MoleculeSection(old) == << MoleculeMarker, ChargeLine >> \o old \o << EndMarker >>

\* the template scripts, by their parts: the lines before the molecule
\* section (none of them an opening marker), the section (or none), the
\* lines after it
TemplateFiles ==
    [ pre : SeqsUpTo({ RemLine, EndMarker, CommentLine }, MaxExtra),
      section : { MoleculeSection(old) : old \in SeqsUpTo({ OldAtomLine }, MaxAtoms) } \cup { << >> },
      post : SeqsUpTo({ RemLine, EndMarker, MoleculeMarker }, MaxExtra) ]

\* line 51: f.readlines()
ReadLines(t) == t.pre \o t.section \o t.post

\* lines 54-55: None
NoIndex == -1

\* lines 56-61: for i, l in enumerate(lines); i counts from 0
RECURSIVE FindSection(_, _, _)
FindSection(lines, i, start) ==
    IF i >= Len(lines) THEN [ start |-> start, end |-> NoIndex ]
    ELSE IF lines[i + 1].mol THEN FindSection(lines, i + 1, i)
    ELSE IF lines[i + 1].end /\ start # NoIndex THEN [ start |-> start, end |-> i ]
    ELSE FindSection(lines, i + 1, start)

\* lines[a:b]
ListSlice(lines, a, b) ==
    LET hi == IF b < Len(lines) THEN b ELSE Len(lines)
    IN  IF a >= hi THEN << >> ELSE [ i \in 1..(hi - a) |-> lines[a + i] ]

\* line 64: lines[0:start+2] + geom_lines + lines[end:]; lines[None:] is
\* the whole list
Join(lines, geom_lines, at) ==
    ListSlice(lines, 0, at.start + 2) \o geom_lines
        \o (IF at.end = NoIndex THEN lines ELSE ListSlice(lines, at.end, Len(lines)))

\* no report is parsed and no pipeline runs while a job script is written
ScriptInit ==
    /\ ParserIdle
    /\ PipelineIdle
    /\ template \in TemplateFiles
    /\ atoms \in Molecules
    /\ job_script = << >>
    /\ tpc = "idle"

\* lines 41-42: mkdir -p directory; cp script directory/script
CopyScript ==
    /\ tpc = "idle"
    /\ job_script' = ReadLines(template)
    /\ tpc' = "copied"
    /\ UNCHANGED << template, atoms >>
    /\ UNCHANGED << parser_vars, pipeline_vars >>

\* lines 44-68: the geometry lines replace the old geometry and the script
\* is written back; None + 2 raises TypeError when no line holds "$molecule"
WriteScript ==
    /\ tpc = "copied"
    /\ LET at == FindSection(job_script, 0, NoIndex) IN
          IF at.start = NoIndex
          THEN tpc' = "raised" /\ UNCHANGED job_script
          ELSE /\ job_script' = Join(job_script, GeomLines(atoms), at)
               /\ tpc' = "written"
    /\ UNCHANGED << template, atoms >>
    /\ UNCHANGED << parser_vars, pipeline_vars >>

ScriptNext == CopyScript \/ WriteScript

ScriptSpec == ScriptInit /\ [][ScriptNext]_vars

\* ------------------------------------------------------------------------
\* Properties of the job script (specification ScriptSpec)
\* ------------------------------------------------------------------------

\* C17: for a template with a molecule section, the script written is the
\* template with the lines between the charge/multiplicity line and the
\* closing marker replaced by one line per atom, in atom order; every other
\* line is unchanged and in its place.
SectionReplaced ==
    (tpc = "written" /\ template.section # << >>) =>
        job_script = template.pre \o << MoleculeMarker, ChargeLine >> \o GeomLines(atoms)
                        \o << EndMarker >> \o template.post

\* ------------------------------------------------------------------------
\* Properties of the pipeline (specification Spec)
\* ------------------------------------------------------------------------

\* C1: the k-th result consumed by the aggregation loop is the result of
\* the k-th submitted geometry, whatever the order in which the jobs end.
ResultsInSubmissionOrder ==
    \A k \in 1..Len(delivered) : delivered[k] = k

\* C1 witness: a job ended before an earlier one and the results of both
\* were consumed
ReorderedCompletionConsumed ==
    overtaken /\ Len(delivered) >= 2

\* C2: whenever a run_calculator_map call has ended, by return or by an
\* exception, its scratch directory no longer exists.
ScratchRemovedOnEveryExit ==
    \A igeo \in 1..n_geoms :
        jobs[igeo].st \in {"returned", "raised"} => jobs[igeo].dir \notin dirs

\* a job failed: its engine exited non-zero or its call raised
Failed(job) == job.st = "raised" \/ (job.st = "returned" /\ job.ret # 0)

\* C3: a failed job of a geometry that is not the last one does not end
\* the run: the loop goes on to the geometries after it.
FailureContained ==
    ~ ( /\ pc = "aborted"
        /\ delivered # << >>
        /\ delivered[Len(delivered)] < n_geoms
        /\ Failed(jobs[delivered[Len(delivered)]]) )

\* the records of this run in a file
OfThisRun(recs) == { i \in 1..Len(recs) : recs[i].geom > 0 }

\* C4: the first write of the run to a file truncates it, whichever geometry
\* is the first to carry its key: a file that holds a record of this run
\* holds no record of an earlier run.
FilesHoldOnlyThisRun ==
    \A name \in DOMAIN files :
        OfThisRun(files[name]) # {} => OfThisRun(files[name]) = 1..Len(files[name])

\* the keys of a result that map to the output file `name`
Carries(res, name) ==
    \/ name[1] = "forces" /\ Has(res["gradients (au)"], name[2])
    \/ name[1] = "nacvec" /\ Has(res["derivative couplings (au)"], << name[2], name[3] >>)

OutputNames == { ForcesFile(s) : s \in 0..2 } \cup { NacvecFile(1, 2) }

\* the geometries handed to the aggregator whose result carries the key of `name`
CarryingGeoms(name) ==
    { delivered[k] : k \in { j \in 1..Len(delivered) :
          jobs[delivered[j]].st = "returned" /\ Carries(jobs[delivered[j]].res, name) } }

\* the geometry indices of the records of this run in `name`, in file order
RunRecords(name) ==
    IF name \notin DOMAIN files THEN << >>
    ELSE LET recs == files[name]
             RECURSIVE Pick(_)
             Pick(i) == IF i > Len(recs) THEN << >>
                        ELSE (IF recs[i].geom > 0 THEN << recs[i].geom >> ELSE << >>) \o Pick(i + 1)
         IN  Pick(1)

\* C5: in each output file the records of the run are in geometry order,
\* one for each geometry whose result carries the file's key, none for others.
RecordsInGeometryOrder ==
    \A name \in OutputNames :
        LET r == RunRecords(name) IN
        /\ \A i, j \in 1..Len(r) : i < j => r[i] < r[j]
        /\ { r[i] : i \in 1..Len(r) } = CarryingGeoms(name)

\* the number of frames the run has written to a file
Frames(name) ==
    IF name \in DOMAIN files THEN Cardinality(OfThisRun(files[name])) ELSE 0

\* the run has two geometries whose jobs returned the parsed minimal
\* reports, the ground-state one first
MinimalReportsReturned ==
    /\ n_geoms = 2
    /\ jobs[1].st = "returned"
    /\ jobs[1].res = ParsedReports[MinimalGroundReport, ragged_raises].data
    /\ jobs[2].st = "returned"
    /\ jobs[2].res = ParsedReports[MinimalExcitedReport, ragged_raises].data

\* C13: the run on two geometries with the minimal ground-state report and
\* the minimal excited-state report completes, with 2 frames in the file of
\* state 0 and 1 frame in each of the files of state 1, of state 2 and of
\* the coupling 1-2.
EndToEndScenario ==
    (MinimalReportsReturned /\ pc # "loop") =>
        /\ pc = "done"
        /\ Frames(ForcesFile(0)) = 2
        /\ Frames(ForcesFile(1)) = 1
        /\ Frames(ForcesFile(2)) = 1
        /\ Frames(NacvecFile(1, 2)) = 1

\* a result with symbols, geometry and arrays of the molecule's shape, and
\* with the energy of every state it has a gradient for
Complete(res) ==
    /\ { "symbols", "geometry (au)", "energies (au)" } \subseteq DOMAIN res
    /\ FitsAtoms(res["geometry (au)"], Len(res["symbols"]))
    /\ \A i \in 1..Len(res["gradients (au)"]) :
          /\ Has(res["energies (au)"], res["gradients (au)"][i].k)
          /\ FitsAtoms(res["gradients (au)"][i].v, Len(res["symbols"]))
    /\ \A i \in 1..Len(res["derivative couplings (au)"]) :
          FitsAtoms(res["derivative couplings (au)"][i].v, Len(res["symbols"]))

\* C16: for every coupling key (I, J) of a result handed to the aggregator,
\* the file of the pair holds one record of that geometry, with the energy
\* of state I of that result, whatever gradients this or an earlier result
\* carries.
CouplingEnergyOfSourceState ==
    \A k \in 1..Len(delivered) :
        LET job == jobs[delivered[k]] IN
        (job.st = "returned" /\ Complete(job.res)) =>
            \A i \in 1..Len(job.res["derivative couplings (au)"]) :
                LET pair == job.res["derivative couplings (au)"][i].k
                    name == NacvecFile(pair[1], pair[2])
                    recs == IF name \in DOMAIN files THEN files[name] ELSE << >>
                    mine == { r \in 1..Len(recs) : recs[r].geom = delivered[k] }
                IN  Has(job.res["energies (au)"], pair[1]) =>
                      /\ Cardinality(mine) = 1
                      /\ \A r \in mine : recs[r].energy = Get(job.res["energies (au)"], pair[1])

\* C18: no scratch directory is used by two jobs of a run: the jobs that
\* were started, and so any two that run at the same time, work in
\* different directories.
ScratchNotShared ==
    \A i, j \in Started : i # j => jobs[i].dir # jobs[j].dir

\* C18 witness: two jobs are running at the same time, each in its directory
TwoJobsRunning ==
    \E i, j \in 1..n_geoms :
        /\ i # j
        /\ jobs[i].st = "running" /\ jobs[j].st = "running"
        /\ { jobs[i].dir, jobs[j].dir } \subseteq dirs

\* the result with the other value of 'ok'
OkFlipped(res) == DataSet(res, "ok", ~res["ok"])

\* C19: what the aggregation loop writes for a result does not depend on
\* its 'ok' flag: when the next result is ready to be handed over, the
\* same result with the other value of 'ok' gives the same files.
OkFlagIgnored ==
    LET igeo == NextResult(consumed) IN
    (pc = "loop" /\ igeo \in 1..n_geoms /\ jobs[igeo].st = "returned") =>
        Aggregate(OkFlipped(jobs[igeo].res), igeo, append, files, state)
            = Aggregate(jobs[igeo].res, igeo, append, files, state)

\* C19 witness: the run has written the gradient of a result whose 'ok' is
\* false
UnsuccessfulResultWritten ==
    \E k \in 1..Len(delivered) :
        LET job == jobs[delivered[k]] IN
        /\ job.st = "returned"
        /\ ~job.res["ok"]
        /\ Has(job.res["gradients (au)"], 0)
        /\ ForcesFile(0) \in DOMAIN files
        /\ \E r \in 1..Len(files[ForcesFile(0)]) : files[ForcesFile(0)][r].geom = delivered[k]

\* C20: when the run has ended and no job has raised, it has finished: the
\* n jobs with the indices 1..n were run, each once, the aggregation loop
\* consumed the n results, and no scratch directory of the run is left.
RunFinishesComplete ==
    (pc # "loop" /\ \A i \in 1..n_geoms : jobs[i].st # "raised") =>
        /\ pc = "done"
        /\ \A i \in 1..n_geoms : jobs[i].st = "returned" /\ jobs[i].dir = Directory(i)
        /\ consumed = n_geoms
        /\ delivered = [ k \in 1..n_geoms |-> k ]
        /\ dirs = {}

\* the geometries of which the run has written a record to an output file
WrittenGeoms ==
    UNION { { files[name][r].geom : r \in OfThisRun(files[name]) } : name \in DOMAIN files }

\* C21: a result is handed to the aggregation loop only when the jobs of all
\* geometries up to it have ended, and a record of geometry j is in an
\* output file only when the calls of all geometries up to j have returned:
\* while the call of geometry i has not returned, nothing of a geometry
\* j >= i is written, whatever the pool size and the state of the later jobs.
NothingPastUnreturnedJob ==
    /\ \A k \in 1..Len(delivered) :
          \A i \in 1..delivered[k] : jobs[i].st \in {"returned", "raised"}
    /\ \A j \in WrittenGeoms : \A i \in 1..j : jobs[i].st = "returned"

\* C21 witness: with more than one worker, the engine call of geometry 1 has
\* not returned, the job of geometry 2 has returned a result that carries a
\* gradient, and the run has written nothing
LaterJobWaitsForEarlier ==
    /\ pool_size > 1
    /\ n_geoms >= 2
    /\ jobs[1].st = "running"
    /\ jobs[2].st = "returned"
    /\ Complete(jobs[2].res) /\ Has(jobs[2].res["gradients (au)"], 0)
    /\ delivered = << >>
    /\ WrittenGeoms = {}

\* ------------------------------------------------------------------------
\* Properties of the parser (specification ParserSpec)
\* ------------------------------------------------------------------------

\* C6: QChemOutputFile.__init__ never raises, whatever the report holds.
ParserNeverRaises == parser.mode # "raised"

\* C7: 'ok' is true only if the report held the success marker line.
OkOnlyWithMarker == parser.data["ok"] => hist.marker

\* C7 witness: a report parsed to its end with ok set
ParsedOk == parser.mode = "done" /\ parser.data["ok"]

\* C8: after a report was parsed, 'energies (au)', 'gradients (au)' and
\* 'derivative couplings (au)' are all present in the result.
RequiredRecordsPresent ==
    parser.mode = "done" =>
        { "energies (au)", "gradients (au)", "derivative couplings (au)" } \subseteq DOMAIN parser.data

\* C9: once the total-energy line has been parsed, energies[0] is present
\* and equals the value on that line.
GroundEnergyPresent ==
    hist.toten # << >> =>
        /\ "energies (au)" \in DOMAIN parser.data
        /\ Has(parser.data["energies (au)"], 0)
        /\ Get(parser.data["energies (au)"], 0) \in { hist.toten[i] : i \in 1..Len(hist.toten) }

\* C10: after a report with a total-energy line and an excitation-energies
\* block was parsed, the keys of energies are 0 and the listed states, and
\* energies[k] = energies[0] + (excitation energy of k) / hartree_to_ev.
ExcitedEnergies ==
    (parser.mode = "done" /\ hist.blocks >= 1) =>
        LET energies == parser.data["energies (au)"] IN
        /\ Keys(energies) = {0} \cup Keys(hist.listed)
        /\ Len(energies) = Cardinality(Keys(energies))
        /\ Get(energies, 0) = hist.toten[Len(hist.toten)]
        /\ \A k \in Keys(hist.listed) :
              Get(energies, k) = Get(energies, 0) + (Get(hist.listed, k) \div hartree_to_ev)

\* C10 witness: a parsed report whose block listed the states 1 and 2
TwoExcitedStatesParsed ==
    /\ parser.mode = "done" /\ hist.blocks = 1
    /\ Keys(hist.listed) = {1, 2}
    /\ Keys(parser.data["energies (au)"]) = {0, 1, 2}

\* the derivative the report gives for atom a and component c: the entry of
\* row c in the column headed a
FileDerivative(chunks, a, c) ==
    LET n == CHOOSE m \in 1..Len(chunks) :
                 \E j \in 1..Len(chunks[m].atoms) : chunks[m].atoms[j] = a
        j == CHOOSE i \in 1..Len(chunks[n].atoms) : chunks[n].atoms[i] = a
    IN  chunks[n].rows[c].v[j]

\* C11: the gradient assembled from a block of consecutive chunks over M
\* atoms has M rows of 3 components, and row i holds the derivatives the
\* report gives for atom i, for the SCF gradient (state 0) and for the
\* gradient of an excited state alike.
GradientRowsByAtom ==
    \A e \in 1..Len(hist.laid) :
        LET key == hist.laid[e].k
            chunks == hist.laid[e].v
            M == Len(HeaderAtoms(chunks))
        IN  WellLaidOut(chunks) =>
              /\ Has(parser.data["gradients (au)"], key)
              /\ LET g == Get(parser.data["gradients (au)"], key) IN
                    /\ Len(g) = M
                    /\ \A a \in 1..M :
                          g[a] = << FileDerivative(chunks, a, 1), FileDerivative(chunks, a, 2),
                                    FileDerivative(chunks, a, 3) >>

\* C11 witness: a parsed report whose SCF gradient and whose gradient of
\* state 1 were both assembled from two chunks over seven atoms
TwoChunkGradientsParsed ==
    /\ parser.mode = "done"
    /\ \A key \in {0, 1} :
          /\ Has(hist.laid, key)
          /\ WellLaidOut(Get(hist.laid, key))
          /\ Len(Get(hist.laid, key)) = 2
          /\ Len(Get(parser.data["gradients (au)"], key)) = 7

\* C12: in every parsed result each gradient array and each coupling array
\* has as many rows as the geometry has atoms.
RowsMatchGeometry ==
    (parser.mode = "done" /\ "geometry (au)" \in DOMAIN parser.data) =>
        LET natoms == Len(parser.data["geometry (au)"])
            grads == parser.data["gradients (au)"]
            nacs == parser.data["derivative couplings (au)"]
        IN  /\ \A i \in 1..Len(grads) : Len(grads[i].v) = natoms
            /\ \A i \in 1..Len(nacs) : Len(nacs[i].v) = natoms

\* C14: the parser terminates on every finite report: no section handler
\* is left reading for ever when the report ends before the handler's
\* terminating line.
ParserTerminates == parser.mode # "hang"

\* C15: a state gradient block is stored under the state announced by the
\* latest "State Energy is" line before it, whatever was parsed in between.
GradientUnderAnnouncedState ==
    (hist.target # << >> /\ hist.target[1] # NoState) => hist.target[2] = hist.target[1]

\* every entry of the dictionary d for `key` is val, and there is one
HoldsOnly(d, key, val) ==
    /\ Has(d, key)
    /\ \A i \in 1..Len(d) : d[i].k = key => d[i].v = val

\* the keys of the result that the first occurrence of their section sets
SetOnce == { "symbols", "geometry (au)", "scf energy" }

\* C22: within one report 'symbols', 'geometry (au)' and 'scf energy' are
\* set by the first geometry block and the first total-energy line and no
\* later step changes them, while the end of a gradient block or of a
\* coupling block stores the block just read under its key, whatever the
\* result held for the key before.
FirstKeptLatestStored ==
    [][ /\ \A key \in SetOnce \cap DOMAIN parser.data :
              key \in DOMAIN parser'.data /\ parser'.data[key] = parser.data[key]
        /\ (parser.mode = "geom_rows" /\ parser'.mode = "scan"
                /\ "symbols" \notin DOMAIN parser.data) =>
              /\ parser'.data["symbols"] = parser.symbols
              /\ Len(parser'.data["geometry (au)"]) = Len(parser.geometry)
        /\ hist'.toten # << >> =>
              /\ "scf energy" \in DOMAIN parser'.data
              /\ parser'.data["scf energy"] = hist'.toten[Len(hist'.toten)]
        /\ (parser.mode = "gscf_hdr" /\ parser'.mode = "scan") =>
              HoldsOnly(parser'.data["gradients (au)"], 0, parser.grad)
        /\ (parser.mode = "gex_hdr" /\ parser'.mode = "scan") =>
              HoldsOnly(parser'.data["gradients (au)"], parser.state, parser.grad)
        /\ (parser.mode = "dc_rows" /\ parser'.mode = "scan") =>
              HoldsOnly(parser'.data["derivative couplings (au)"], parser.pair, parser.nacv)
      ]_vars

\* C22 witness: a parsed report in which every section occurred twice with
\* different content: the result holds the symbols, the geometry and the
\* energy of the first occurrence, and the gradients and the coupling of
\* the second
SectionsRepeated ==
    /\ parser.mode = "done"
    /\ hist.again = { "geometry", "scf gradient", "state gradient", "coupling" }
    /\ Len(hist.toten) = 2 /\ hist.toten[1] # hist.toten[2]
    /\ parser.data["scf energy"] = hist.toten[2]
    /\ Len(parser.data["symbols"]) = 2 /\ Len(parser.data["geometry (au)"]) = 2
    /\ Len(Get(parser.data["gradients (au)"], 0)) = 1
    /\ Len(Get(parser.data["gradients (au)"], 1)) = 1
    /\ Get(parser.data["derivative couplings (au)"], << 1, 2 >>) = << << 4, 0, 0 >> >>

====
